---------------------------- MODULE Spec2Model ----------------------------
(***************************************************************************)
(* Model of fnirsi_logger.py: the session driver of main() (handshake      *)
(* writes, settle delay, read/decode loop, keep-alive writes) and the      *)
(* decode() closure that turns one received report into four samples.      *)
(*                                                                         *)
(* Numbers.  Every Python float of decode() is a quotient of integers by   *)
(* powers of ten, so the model computes them exactly as terminating        *)
(* decimals (Dec): a mantissa, kept as a little-endian sequence of limbs   *)
(* so that it is not limited by the width of a machine integer, and an     *)
(* exponent counting limbs after the point.  Spec leaves the binary        *)
(* rounding of the floats out; SpecFloat, further down, models the         *)
(* smoothing of the temperature in binary64, rounding included.  The       *)
(* clock is counted in whole milliseconds.                                 *)
(***************************************************************************)
EXTENDS Integers, Sequences, FiniteSets, TLC

(***************************************************************************)
(* Natural numbers as little-endian sequences of limbs, each limb four     *)
(* decimal digits (0 is << >>): sums and products of limbs stay within the *)
(* integers TLC computes with.                                             *)
(***************************************************************************)
Base == 10 ^ 4

RECURSIVE NatToLimbs(_)
NatToLimbs(n) == IF n = 0 THEN << >> ELSE <<n % Base>> \o NatToLimbs(n \div Base)

RECURSIVE Trim(_)
Trim(s) == IF s = << >> THEN << >>
           ELSE IF s[Len(s)] = 0 THEN Trim(SubSeq(s, 1, Len(s) - 1)) ELSE s

RECURSIVE BAddC(_, _, _)
BAddC(a, b, c) ==
    IF a = << >> /\ b = << >> THEN (IF c = 0 THEN << >> ELSE <<c>>)
    ELSE LET x == IF a = << >> THEN 0 ELSE a[1]
             y == IF b = << >> THEN 0 ELSE b[1]
             s == x + y + c
         IN  <<s % Base>> \o BAddC(IF a = << >> THEN a ELSE Tail(a),
                                   IF b = << >> THEN b ELSE Tail(b), s \div Base)

BAdd(a, b) == BAddC(a, b, 0)

\* a - b for a >= b
RECURSIVE BSubC(_, _, _)
BSubC(a, b, c) ==
    IF a = << >> THEN << >>
    ELSE LET y == IF b = << >> THEN 0 ELSE b[1]
             s == a[1] - y - c
         IN  <<(s + Base) % Base>>
                 \o BSubC(Tail(a), IF b = << >> THEN b ELSE Tail(b),
                          IF s < 0 THEN 1 ELSE 0)

BSub(a, b) == Trim(BSubC(a, b, 0))

\* a * d + c for a limb d
RECURSIVE BMulLimb(_, _, _)
BMulLimb(a, d, c) ==
    IF a = << >> THEN (IF c = 0 THEN << >> ELSE <<c>>)
    ELSE LET s == a[1] * d + c
         IN  <<s % Base>> \o BMulLimb(Tail(a), d, s \div Base)

RECURSIVE BMulRaw(_, _)
BMulRaw(a, b) ==
    IF b = << >> THEN << >>
    ELSE BAdd(BMulLimb(a, b[1], 0), <<0>> \o BMulRaw(a, Tail(b)))

BMul(a, b) == Trim(BMulRaw(a, b))

\* a <= b, comparing from the most significant limb
RECURSIVE BLeq(_, _)
BLeq(a, b) ==
    IF Len(a) # Len(b) THEN Len(a) < Len(b)
    ELSE IF a = << >> THEN TRUE
    ELSE IF a[Len(a)] # b[Len(b)] THEN a[Len(a)] < b[Len(b)]
    ELSE BLeq(SubSeq(a, 1, Len(a) - 1), SubSeq(b, 1, Len(b) - 1))

\* a * Base^k
Shift(a, k) == IF a = << >> THEN << >> ELSE [i \in 1..k |-> 0] \o a

(***************************************************************************)
(* Non-negative terminating decimals: value = m / Base^q, normalised so    *)
(* that equal values are equal records.  <<4560, 123>> with q = 1 is       *)
(* 123.456.                                                                *)
(***************************************************************************)
RECURSIVE Norm(_)
Norm(d) == IF d.m = << >> THEN [m |-> << >>, q |-> 0]
           ELSE IF d.q > 0 /\ d.m[1] = 0 THEN Norm([m |-> Tail(d.m), q |-> d.q - 1])
           ELSE d

Max(a, b) == IF a >= b THEN a ELSE b

FromInt(n) == [m |-> NatToLimbs(n), q |-> 0]

AlignM(x, q) == Shift(x.m, q - x.q)

DAdd(x, y) == LET q == Max(x.q, y.q)
              IN  Norm([m |-> BAdd(AlignM(x, q), AlignM(y, q)), q |-> q])

\* x - y for x >= y
DSub(x, y) == LET q == Max(x.q, y.q)
              IN  Norm([m |-> BSub(AlignM(x, q), AlignM(y, q)), q |-> q])

DMul(x, y) == Norm([m |-> BMul(x.m, y.m), q |-> x.q + y.q])

DLeq(x, y) == LET q == Max(x.q, y.q) IN BLeq(AlignM(x, q), AlignM(y, q))

\* the decimal exponent of a power of ten
RECURSIVE Exp10Of(_)
Exp10Of(p) == IF p = 1 THEN 0 ELSE 1 + Exp10Of(p \div 10)

\* x / p for a power of ten p = 10^k: x * 10^(4j - k) / Base^j, j = ceil(k / 4)
DivBy(x, p) ==
    LET k == Exp10Of(p)
        j == (k + 3) \div 4
    IN  Norm([m |-> BMulLimb(x.m, 10 ^ (4 * j - k), 0), q |-> x.q + j])

(***************************************************************************)
(* Bytes and the 8-bit CRC of setup_crc().                                 *)
(***************************************************************************)
Byte == 0..255

RECURSIVE Xor(_, _)
Xor(a, b) == IF a = 0 THEN b
             ELSE IF b = 0 THEN a
             ELSE (((a % 2) + (b % 2)) % 2) + 2 * Xor(a \div 2, b \div 2)

\* a xor b for bytes, tabulated
XorTable == [a \in Byte |-> [b \in Byte |-> Xor(a, b)]]

XorByte(a, b) == XorTable[a][b]

width == 8
poly == 57
init_value == 66
final_xor_value == 0

reverse_input == FALSE
reverse_output == FALSE

\* one bit of the register, most significant bit first (no reflection)
CrcBit(c) == IF c >= 2 ^ (width - 1)
             THEN Xor((2 * c) % (2 ^ width), poly)
             ELSE (2 * c) % (2 ^ width)

RECURSIVE CrcBits(_, _)
CrcBits(c, n) == IF n = 0 THEN c ELSE CrcBits(CrcBit(c), n - 1)

\* use_table = True: the register after one byte is table[register xor byte]
CrcTable == [x \in Byte |-> CrcBits(x, width)]

\* the bits of an n-bit value in reverse order
RECURSIVE Reflect(_, _)
Reflect(b, n) == IF n = 0 THEN 0
                 ELSE (b % 2) * (2 ^ (n - 1)) + Reflect(b \div 2, n - 1)

RECURSIVE CrcFold(_, _)
CrcFold(c, bytes) ==
    IF bytes = << >> THEN c
    ELSE LET b == IF reverse_input THEN Reflect(bytes[1], 8) ELSE bytes[1]
             r == CrcTable[XorByte(c, b)]
         IN  \* the guard has the register computed before the next byte
             IF r \in Byte THEN CrcFold(r, Tail(bytes)) ELSE r

calculate_checksum(bytes) ==
    LET c == CrcFold(init_value, bytes)
    IN  Xor(IF reverse_output THEN Reflect(c, width) ELSE c, final_xor_value)
(***************************************************************************)
(* Python values of decode().                                              *)
(***************************************************************************)
\* an optional value: None, or a value that is set
None == << >>
Some(x) == <<x>>
Val(o) == o[1]

\* Python data[k], which raises IndexError unless -len <= k < len; decode
\* uses a negative index only in data[-1]
InRange(d, k) == k >= 0 /\ k < Len(d)
At(d, k) == d[k + 1]

alpha == DivBy(FromInt(9), 10)
sps == 100
time_interval == DivBy(FromInt(1), sps)

\* (1.0 - alpha) of line 201
one_minus_alpha == DSub(FromInt(1), alpha)

\* 4 * time_interval of line 176
four_intervals == DMul(FromInt(4), time_interval)

\* the 32-bit field of lines 180-191; Python integers do not overflow
U32(d, offset) ==
    DAdd(DMul(FromInt(At(d, offset + 3) * 256), FromInt(256 * 256)),
         FromInt(At(d, offset + 2) * 256 * 256 + At(d, offset + 1) * 256
                 + At(d, offset + 0)))

\* the 16-bit field of lines 192, 193 and 199
U16(d, lo) == FromInt(At(d, lo) + At(d, lo + 1) * 256)

\* a faulty variant: sub-records taken to be 16 bytes apart
SubOffset_Stride16(i) == 2 + 16 * i

SubOffset(i) == 2 + 15 * i

\* the indices one pass of the loop body reads (offset + 12 is not read)
SubIndices(i) == {SubOffset(i) + k : k \in (0..14) \ {12}}

SubReadable(d, i) == \A k \in SubIndices(i) : InRange(d, k)

\* a faulty variant: the average restarts at every sub-sample
Smooth_Restart(temp_C, ema) == Some(temp_C)

Smooth(temp_C, ema) ==
    IF ema # None
    THEN Some(DAdd(DMul(temp_C, one_minus_alpha), DMul(Val(ema), alpha)))
    ELSE Some(temp_C)

\* a faulty variant: the sample interval is left out
AddEnergy_NoInterval(e, power) == DAdd(e, power)

AddEnergy(e, power) == DAdd(e, DMul(power, time_interval))

\* a faulty variant: the charge is assigned, not accumulated
AddCapacity_Overwrite(c, current) == DMul(current, time_interval)

AddCapacity(c, current) == DAdd(c, DMul(current, time_interval))

\* one pass of the loop body, lines 178-211, on a state s of decode's
\* nonlocal variables and its output so far
SubSample(s, d, i, t0) ==
    LET offset  == SubOffset(i)
        voltage == DivBy(U32(d, offset), 100000)
        current == DivBy(U32(d, offset + 4), 100000)
        dp      == DivBy(U16(d, offset + 8), 1000)
        dn      == DivBy(U16(d, offset + 10), 1000)
        temp_C  == DivBy(U16(d, offset + 13), 10)
        ema     == Smooth(temp_C, s.temp_ema)
        power   == DMul(voltage, current)
        en      == AddEnergy(s.energy, power)
        cap     == AddCapacity(s.capacity, current)
        t       == DAdd(t0, DMul(FromInt(i), time_interval))
    IN  [s EXCEPT !.temp_ema = ema, !.energy = en, !.capacity = cap,
                  !.out = Append(@, [t |-> t, i |-> i, voltage |-> voltage,
                                     current |-> current, dp |-> dp, dn |-> dn,
                                     temp_ema |-> Val(ema), energy |-> en,
                                     capacity |-> cap])]

\* the loop of line 177 from pass i on; a pass that reads past the end of the
\* buffer raises IndexError before it assigns anything
RECURSIVE SubSamples(_, _, _, _)
SubSamples(s, d, i, t0) ==
    IF i = 4 THEN s
    ELSE IF ~SubReadable(d, i) THEN [s EXCEPT !.err = "IndexError"]
    ELSE SubSamples(SubSample(s, d, i, t0), d, i + 1, t0)

\* a faulty variant: every packet type is decoded
IsDataPacket_AnyType(d) == TRUE

\* a faulty variant: a report with a reserved flag other than 1 is discarded
IsDataPacket_FlagsSet(d) ==
    /\ At(d, 1) = 4
    /\ \A i \in 0..3 : InRange(d, SubOffset(i) + 12) => At(d, SubOffset(i) + 12) = 1

IsDataPacket(d) == At(d, 1) = 4

\* a faulty variant: the checksum is never compared
ChecksumOk_Skipped(d, crc_on) == TRUE

\* a faulty variant: the checksum is compared without a calculator too
ChecksumOk_Always(d, crc_on) ==
    At(d, Len(d) - 1) = calculate_checksum(SubSeq(d, 2, Len(d) - 1))

\* a faulty variant: the vendor constant at offset 0 is summed too
ChecksumOk_WithMarker(d, crc_on) ==
    crc_on => At(d, Len(d) - 1) = calculate_checksum(SubSeq(d, 1, Len(d) - 1))

\* lines 166-169; data[-1] is the last byte, data[1:-1] all but the first and last
ChecksumOk(d, crc_on) ==
    crc_on => At(d, Len(d) - 1) = calculate_checksum(SubSeq(d, 2, Len(d) - 1))

\* decode(data) called when time.time() is clock (seconds); s holds temp_ema,
\* energy, capacity, the lines printed so far, the notices written to stderr,
\* the number of reports that passed both checks and the exception raised, if
\* any
decode(s, d, crc_on, clock) ==
    IF ~InRange(d, 1) THEN [s EXCEPT !.err = "IndexError"]
    ELSE IF ~IsDataPacket(d) THEN s
    ELSE IF ~ChecksumOk(d, crc_on) THEN [s EXCEPT !.notices = @ + 1]
    ELSE SubSamples([s EXCEPT !.accepted = @ + 1], d, 0,
                    DSub(clock, four_intervals))
(***************************************************************************)
(* The reports the device may send: the transport returns at most 64 bytes *)
(* per read.  A report is laid out as the comment of decode() describes.   *)
(***************************************************************************)
\* n as k little-endian bytes
LE(n, k) == [j \in 1..k |-> (n \div (256 ^ (j - 1))) % 256]

\* one 15-byte sub-record
SubRecord(r) ==
    LE(r.voltage, 4) \o LE(r.current, 4) \o LE(r.dp, 2) \o LE(r.dn, 2)
        \o <<r.flag>> \o LE(r.temp, 2)

\* the first len bytes of a report, the last of them the checksum of the bytes
\* between the vendor constant and itself (or another value when ~good)
Report(type, subs, b62, len, good) ==
    LET body == <<170, type>> \o SubRecord(subs[1]) \o SubRecord(subs[2])
                    \o SubRecord(subs[3]) \o SubRecord(subs[4]) \o <<b62>>
        head == SubSeq(body, 1, len - 1)
        sum  == calculate_checksum(SubSeq(head, 2, Len(head)))
    IN  IF len < 2 THEN SubSeq(body, 1, len)
        ELSE head \o <<IF good THEN sum ELSE (sum + 1) % 256>>

RecZ == [voltage |-> 0, current |-> 0, dp |-> 0, dn |-> 0, flag |-> 1, temp |-> 0]
RecA == [voltage |-> 10000000, current |-> 5000000, dp |-> 0, dn |-> 0,
         flag |-> 1, temp |-> 0]
RecB == [voltage |-> 12345600, current |-> 150000, dp |-> 2700, dn |-> 600,
         flag |-> 1, temp |-> 253]
RecC == [voltage |-> 20000000, current |-> 17000001, dp |-> 255, dn |-> 3300,
         flag |-> 0, temp |-> 300]

Patterns == { <<RecA, RecZ, RecZ, RecZ>>, <<RecB, RecC, RecB, RecA>> }

PacketTypes == {3, 4}
Lengths == {0, 1, 20, 64}

Reports == { Report(type, subs, 0, len, good) :
                 type \in PacketTypes, subs \in Patterns,
                 len \in Lengths, good \in BOOLEAN }

\* how long a read blocks before it returns a report, in ms
Waits == {1, 1000}

MaxReads == 2

(***************************************************************************)
(* The session: main() from the handshake on.                              *)
(***************************************************************************)
VARIABLES
    pc,              \* the statement main() is at
    err,             \* the exception that ended main(), or "none"
    is_fnb58,        \* the variant found by lines 51-57
    crc_calculator,  \* TRUE when setup_crc() returned a calculator
    temp_ema, energy, capacity,
    now,             \* the clock, in ms
    continue_time,   \* when the next keep-alive is due, in ms
    written,         \* the buffers written to ep_out, in order
    out,             \* the samples printed to stdout, in order
    notices,         \* the number of checksum notices printed to stderr
    accepted,        \* the number of reports decode did not discard
    data,            \* the report read in this pass of the loop (<< >> outside)
    reads,           \* the number of reads issued
    last             \* this pass's read: its outcome, the clock when it
                     \* returned and the state decode began in

vars == <<pc, err, is_fnb58, crc_calculator, temp_ema, energy, capacity, now,
          continue_time, written, out, notices, accepted, data, reads, last>>

Command(code, sum) == <<170, code>> \o [j \in 1..61 |-> 0] \o <<sum>>

CmdInit1 == Command(129, 142)
CmdInit2 == Command(130, 150)
CmdContinue == Command(131, 158)
\* a faulty variant: the two start-streaming buffers are exchanged
CmdStart_Swapped == IF is_fnb58 THEN CmdContinue ELSE CmdInit2

CmdStart == IF is_fnb58 THEN CmdInit2 ELSE CmdContinue

\* a faulty variant: the two refresh periods are exchanged
refresh_Swapped == IF is_fnb58 THEN 3 ELSE 1000

refresh == IF is_fnb58 THEN 1000 ELSE 3

SettleMs == 100
ReadTimeoutMs == 1000

NoRead == [outcome |-> "none", temp_ema |-> None, energy |-> FromInt(0),
           capacity |-> FromInt(0), n |-> 0, t |-> 0]

Init ==
    /\ pc = "handshake1"
    /\ err = "none"
    /\ is_fnb58 \in BOOLEAN
    /\ crc_calculator \in BOOLEAN
    /\ temp_ema = None
    /\ energy = FromInt(0)
    /\ capacity = FromInt(0)
    /\ now = 0
    /\ continue_time = 0
    /\ written = << >>
    /\ out = << >>
    /\ notices = 0
    /\ accepted = 0
    /\ data = << >>
    /\ reads = 0
    /\ last = NoRead

\* a faulty variant: the exception is swallowed and the loop goes on
Raise_Continue(e) == pc' = "read" /\ err' = e

\* an uncaught exception ends main()
Raise(e) == pc' = "terminated" /\ err' = e

\* ep_out.write(buf) at statement at, followed by statement next
Write(at, buf, next) ==
    /\ pc = at
    /\ \/ /\ written' = Append(written, buf)
          /\ pc' = next
          /\ err' = err
       \/ /\ Raise("USBError")
          /\ written' = written
    /\ UNCHANGED <<is_fnb58, crc_calculator, temp_ema, energy, capacity, now,
                   continue_time, out, notices, accepted, data, reads, last>>

Handshake1 == Write("handshake1", CmdInit1, "handshake2")

Handshake2 == Write("handshake2", CmdInit2, "start")

StartStreaming == Write("start", CmdStart, "settle")

\* lines 132-218: the session state is set up, then the settle delay
Settle ==
    /\ pc = "settle"
    /\ now' = now + SettleMs
    /\ continue_time' = now' + refresh
    /\ pc' = "read"
    /\ UNCHANGED <<err, is_fnb58, crc_calculator, temp_ema, energy, capacity,
                   written, out, notices, accepted, data, reads, last>>

Snapshot(outcome, t) ==
    [outcome |-> outcome, temp_ema |-> temp_ema, energy |-> energy,
     capacity |-> capacity, n |-> Len(out), t |-> t]

\* lines 220-222: the read returns a report after w ms and decode runs on it
ReadReport(w, d) ==
    /\ pc = "read"
    /\ reads < MaxReads
    /\ reads' = reads + 1
    /\ now' = now + w
    /\ data' = d
    /\ last' = Snapshot("data", now')
    /\ LET s == decode([temp_ema |-> temp_ema, energy |-> energy,
                        capacity |-> capacity, out |-> out,
                        notices |-> notices, accepted |-> accepted,
                        err |-> "none"],
                       d, crc_calculator, DivBy(FromInt(now'), 1000))
       IN  /\ temp_ema' = s.temp_ema
           /\ energy' = s.energy
           /\ capacity' = s.capacity
           /\ out' = s.out
           /\ notices' = s.notices
           /\ accepted' = s.accepted
           /\ IF s.err = "none" THEN pc' = "keepalive" /\ err' = err
              ELSE Raise(s.err)
    /\ UNCHANGED <<is_fnb58, crc_calculator, continue_time, written>>

\* line 220: nothing arrives within the timeout; the read raises and
\* nothing in main() catches it
ReadTimeout ==
    /\ pc = "read"
    /\ reads < MaxReads
    /\ reads' = reads + 1
    /\ now' = now + ReadTimeoutMs
    /\ last' = Snapshot("timeout", now')
    /\ Raise("USBTimeoutError")
    /\ UNCHANGED <<is_fnb58, crc_calculator, temp_ema, energy, capacity,
                   continue_time, written, out, notices, accepted, data>>

\* line 220: the transfer fails
ReadError(w) ==
    /\ pc = "read"
    /\ reads < MaxReads
    /\ reads' = reads + 1
    /\ now' = now + w
    /\ last' = Snapshot("error", now')
    /\ Raise("USBError")
    /\ UNCHANGED <<is_fnb58, crc_calculator, temp_ema, energy, capacity,
                   continue_time, written, out, notices, accepted, data>>

\* lines 224-226, which end the pass of the loop: data is not used again
KeepAlive ==
    /\ pc = "keepalive"
    /\ IF now >= continue_time
       THEN /\ continue_time' = now + refresh
            /\ \/ /\ written' = Append(written, CmdContinue)
                  /\ pc' = "read"
                  /\ err' = err
               \/ /\ Raise("USBError")
                  /\ written' = written
       ELSE /\ pc' = "read"
            /\ UNCHANGED <<err, continue_time, written>>
    /\ data' = << >>
    /\ last' = NoRead
    /\ UNCHANGED <<is_fnb58, crc_calculator, temp_ema, energy, capacity, now,
                   out, notices, accepted, reads>>

Next ==
    \/ Handshake1
    \/ Handshake2
    \/ StartStreaming
    \/ Settle
    \/ \E w \in Waits, d \in Reports : ReadReport(w, d)
    \/ ReadTimeout
    \/ \E w \in Waits : ReadError(w)
    \/ KeepAlive

Spec == Init /\ [][Next]_vars

(***************************************************************************)
(* Binary floating point.  The smoothing of lines 199-203 is also modelled *)
(* as Python computes it, in IEEE 754 binary64 with round-to-nearest-even: *)
(* a float is 0 (m = << >>) or m * 2^e with 2^52 <= m < 2^53, m kept in    *)
(* limbs.  The values met here are far from overflow and from subnormals.  *)
(***************************************************************************)
\* 2^k, thirteen bits at a time (2^13 is below Base)
RECURSIVE Pow2L(_)
Pow2L(k) == IF k < 13 THEN <<2 ^ k>> ELSE BMulLimb(Pow2L(k - 13), 2 ^ 13, 0)

\* quotient (limbs) and remainder of a by the small number d, from limb i down
RECURSIVE BDivFrom(_, _, _, _)
BDivFrom(a, d, i, r) ==
    IF i = 0 THEN [q |-> << >>, r |-> r]
    ELSE LET cur == r * Base + a[i]
             rest == BDivFrom(a, d, i - 1, cur % d)
         IN  [q |-> Append(rest.q, cur \div d), r |-> rest.r]

BDivMod(a, d) == LET x == BDivFrom(a, d, Len(a), 0)
                 IN  [q |-> Trim(x.q), r |-> x.r]

RECURSIVE BitLenInt(_)
BitLenInt(n) == IF n = 0 THEN 0 ELSE 1 + BitLenInt(n \div 2)

\* the number of bits of a, sixteen at a time
RECURSIVE BitLen(_)
BitLen(a) == LET x == BDivMod(a, 2 ^ 16)
             IN  IF x.q = << >> THEN BitLenInt(x.r) ELSE 16 + BitLen(x.q)

\* a \div 2^k
RECURSIVE BShiftRight(_, _)
BShiftRight(a, k) ==
    IF k = 0 THEN a
    ELSE IF k < 16 THEN BDivMod(a, 2 ^ k).q
    ELSE BShiftRight(BDivMod(a, 2 ^ 16).q, k - 16)

Mantissa == 53

\* the float nearest to n * 2^e (ties to even); sticky says that the exact
\* value is a little above n * 2^e
RoundF(n, e, sticky) ==
    LET k == BitLen(n) - Mantissa
    IN  IF n = << >> THEN [m |-> << >>, e |-> 0]
        ELSE IF k <= 0 THEN [m |-> BMul(n, Pow2L(0 - k)), e |-> e + k]
        ELSE LET q == BShiftRight(n, k)
                 r == BSub(n, BMul(q, Pow2L(k)))
                 half == Pow2L(k - 1)
                 odd == q[1] % 2 = 1
                 up == \/ ~BLeq(r, half)
                       \/ r = half /\ (sticky \/ odd)
                 q1 == IF up THEN BAdd(q, <<1>>) ELSE q
             IN  IF q1 = Pow2L(Mantissa)
                 THEN [m |-> Pow2L(Mantissa - 1), e |-> e + k + 1]
                 ELSE [m |-> q1, e |-> e + k]

Min(a, b) == IF a <= b THEN a ELSE b

\* the mantissa of x at the exponent e <= x.e
AtExp(x, e) == IF x.m = << >> THEN << >> ELSE BMul(x.m, Pow2L(x.e - e))

FAdd(x, y) ==
    IF x.m = << >> THEN y
    ELSE IF y.m = << >> THEN x
    ELSE LET e == Min(x.e, y.e)
         IN  RoundF(BAdd(AtExp(x, e), AtExp(y, e)), e, FALSE)

\* x - y for x >= y >= 0
FSub(x, y) ==
    IF y.m = << >> THEN x
    ELSE LET e == Min(x.e, y.e)
         IN  RoundF(BSub(AtExp(x, e), AtExp(y, e)), e, FALSE)

FMul(x, y) == RoundF(BMul(x.m, y.m), x.e + y.e, FALSE)

FLeq(x, y) ==
    IF x.m = << >> THEN TRUE
    ELSE IF y.m = << >> THEN FALSE
    ELSE LET e == Min(x.e, y.e) IN BLeq(AtExp(x, e), AtExp(y, e))

GuardBits == 80

\* the float n / d for a natural number n and a small divisor d
FDivInt(n, d) ==
    LET x == BDivMod(BMul(NatToLimbs(n), Pow2L(GuardBits)), d)
    IN  RoundF(x.q, 0 - GuardBits, x.r # 0)

FInt(n) == RoundF(NatToLimbs(n), 0, FALSE)

alpha64 == FDivInt(9, 10)
one_minus_alpha64 == FSub(FInt(1), alpha64)

\* line 199, as a float
TempC64(raw) == FDivInt(raw, 10)

\* lines 200-203, as floats
Smooth64(temp_C, ema) ==
    IF ema # None
    THEN Some(FAdd(FMul(temp_C, one_minus_alpha64), FMul(Val(ema), alpha64)))
    ELSE Some(temp_C)

(***************************************************************************)
(* The smoothing alone, in floats: each step is one pass of the loop of    *)
(* decode on a sub-record whose temperature field is raw; out records the  *)
(* temperature read and the temp_ema it left.  Nothing else of the session *)
(* moves.                                                                  *)
(***************************************************************************)
TempRaws == {39, 253, 300, 1000}

MaxSamples == 4

InitFloat ==
    /\ pc = "decode"
    /\ err = "none"
    /\ is_fnb58 = FALSE
    /\ crc_calculator = FALSE
    /\ temp_ema = None
    /\ energy = FromInt(0)
    /\ capacity = FromInt(0)
    /\ now = 0
    /\ continue_time = 0
    /\ written = << >>
    /\ out = << >>
    /\ notices = 0
    /\ accepted = 0
    /\ data = << >>
    /\ reads = 0
    /\ last = NoRead

SmoothPass(raw) ==
    /\ pc = "decode"
    /\ Len(out) < MaxSamples
    /\ temp_ema' = Smooth64(TempC64(raw), temp_ema)
    /\ out' = Append(out, [temp_C |-> TempC64(raw), temp_ema |-> Val(temp_ema')])
    /\ UNCHANGED <<pc, err, is_fnb58, crc_calculator, energy, capacity, now,
                   continue_time, written, notices, accepted, data, reads, last>>

NextFloat == \E raw \in TempRaws : SmoothPass(raw)

SpecFloat == InitFloat /\ [][NextFloat]_vars

(***************************************************************************)
(* Properties.  They are stated on the pass of the loop in progress: data  *)
(* is the report decode was called on, last the state it began in, and the *)
(* samples out holds beyond last.n are those this call printed.            *)
(***************************************************************************)
Called == last.outcome = "data"

Emitted == SubSeq(out, last.n + 1, Len(out))

StateKept ==
    /\ temp_ema = last.temp_ema
    /\ energy = last.energy
    /\ capacity = last.capacity

\* the unsigned value of the n bytes from offset off on, least significant first
RECURSIVE RefLE(_, _, _)
RefLE(d, off, n) ==
    IF n = 0 THEN FromInt(0)
    ELSE DAdd(FromInt(d[off + 1]), DMul(FromInt(256), RefLE(d, off + 1, n - 1)))

\* a 64-byte report of type 0x04 whose trailer matches, or is not verified
Valid(d) ==
    /\ Len(d) = 64
    /\ d[2] = 4
    /\ crc_calculator => d[64] = calculate_checksum(SubSeq(d, 2, 63))

Hundredth == DivBy(FromInt(1), 100)
Tenth == DivBy(FromInt(1), 10)
NineTenths == DivBy(FromInt(9), 10)

\* C1: a report whose type byte is not 0x04 makes decode print nothing, raise
\* nothing and leave temp_ema, energy and capacity as they were, with or
\* without a checksum calculator.
C1_OtherTypesIgnored ==
    (Called /\ Len(data) >= 2 /\ data[2] # 4)
        => /\ Emitted = << >>
           /\ Len(out) = last.n
           /\ StateKept
           /\ err = "none"

\* C1 happens: with a calculator, a full-length report of type 0x03 has been
\* discarded after an earlier report was decoded.
C1_Witness ==
    /\ Called /\ Len(data) = 64 /\ data[2] = 3
    /\ crc_calculator
    /\ last.n = 4 /\ last.temp_ema # None
    /\ pc = "keepalive"

\* C2: with a calculator, a 64-byte report of type 0x04 whose byte 63 is not
\* the CRC of bytes 1..62 makes decode print nothing and leave temp_ema,
\* energy and capacity as they were, and main() goes on with its loop; a
\* valid report read after such a report is decoded into four samples.
C2_MismatchDropped ==
    /\ (/\ crc_calculator /\ Called /\ Len(data) = 64 /\ data[2] = 4
        /\ data[64] # calculate_checksum(SubSeq(data, 2, 63)))
           => /\ Emitted = << >>
              /\ Len(out) = last.n
              /\ StateKept
              /\ pc = "keepalive"
              /\ err = "none"
    /\ (Called /\ notices > 0 /\ Valid(data))
           => /\ Len(Emitted) = 4
              /\ pc = "keepalive"
              /\ err = "none"

\* C2 happens: a corrupted report has been dropped after an earlier report
\* was decoded.
C2_Witness ==
    /\ crc_calculator /\ Called /\ Len(data) = 64 /\ data[2] = 4
    /\ data[64] # calculate_checksum(SubSeq(data, 2, 63))
    /\ last.n = 4
    /\ pc = "keepalive"

\* the first half of C3: a valid report yields four samples, numbered 0..3,
\* sample i stamped t_arrival - 4 * 0.01 + i * 0.01, each stamp 0.01 s after
\* the one before
C3_FourSamples ==
    (Called /\ Valid(data))
        => /\ Len(Emitted) = 4
           /\ \A i \in 0..3 :
                  /\ Emitted[i + 1].i = i
                  /\ Emitted[i + 1].t =
                         DAdd(DSub(DivBy(FromInt(last.t), 1000),
                                   DMul(FromInt(4), Hundredth)),
                              DMul(FromInt(i), Hundredth))
           /\ \A i \in 1..3 :
                  Emitted[i + 1].t = DAdd(Emitted[i].t, Hundredth)

\* C3: a valid report yields exactly four samples, numbered 0..3 and stamped
\* t_arrival - 4 * dt + i * dt, and the number of samples printed is at all
\* times four times the number of reports decode accepted.
C3_FourPerAcceptedReport ==
    /\ C3_FourSamples
    /\ Len(out) = 4 * accepted

\* C4: a report that is not 64 bytes long ends in an error, with nothing
\* printed for it.
C4_WrongLengthFails ==
    (Called /\ Len(data) # 64)
        => /\ pc = "terminated"
           /\ err # "none"
           /\ Emitted = << >>

\* C5: when decode ends in an error, temp_ema, energy and capacity are what
\* they were before the call.
C5_ErrorKeepsState == (Called /\ err # "none") => StateKept

\* C6: after a read timed out main() is still in its loop, no exception has
\* been raised, nothing was printed and temp_ema, energy and capacity are
\* unchanged.
C6_TimeoutLoops ==
    last.outcome = "timeout"
        => /\ pc # "terminated"
           /\ err = "none"
           /\ Len(out) = last.n
           /\ StateKept

\* C7: both accumulators start at 0; every sample printed carries the energy
\* of the sample before it plus voltage * current * 0.01 and the capacity of
\* the sample before it plus current * 0.01, voltage and current being the
\* raw fields of its sub-record over 100000; the accumulators are those of the
\* last sample; and a first sub-sample with raw voltage 10000000 and raw
\* current 5000000 brings the energy to 50.
C7_Integrals ==
    /\ Len(out) = 0 => (energy = FromInt(0) /\ capacity = FromInt(0))
    /\ Len(out) > 0 => /\ energy = out[Len(out)].energy
                       /\ capacity = out[Len(out)].capacity
    /\ \A k \in 1..Len(out) :
           LET e0 == IF k = 1 THEN FromInt(0) ELSE out[k - 1].energy
               c0 == IF k = 1 THEN FromInt(0) ELSE out[k - 1].capacity
           IN  /\ out[k].energy =
                      DAdd(e0, DMul(DMul(out[k].voltage, out[k].current), Hundredth))
               /\ out[k].capacity = DAdd(c0, DMul(out[k].current, Hundredth))
    /\ Called =>
           \A j \in 1..Len(Emitted) :
               /\ Emitted[j].voltage =
                      DivBy(RefLE(data, 2 + 15 * (j - 1), 4), 100000)
               /\ Emitted[j].current =
                      DivBy(RefLE(data, 2 + 15 * (j - 1) + 4, 4), 100000)
    /\ (/\ Called /\ last.n = 0 /\ Len(Emitted) >= 1
        /\ RefLE(data, 2, 4) = FromInt(10000000)
        /\ RefLE(data, 6, 4) = FromInt(5000000))
           => out[1].energy = FromInt(50)

\* C7 happens: the session's first sub-sample had raw voltage 10000000 and raw
\* current 5000000, and a second report has been decoded after it.
C7_Witness ==
    /\ Called /\ last.n = 4 /\ Len(out) = 8
    /\ out[1].voltage = FromInt(100) /\ out[1].current = FromInt(50)
    /\ out[1].energy = FromInt(50)
    /\ out[8].energy # out[4].energy

\* C8: the energy and the capacity of a printed sample are at least those of
\* every sample printed before it, and the accumulators are at least those of
\* the last sample.
C8_Monotone ==
    /\ \A j \in 1..Len(out) : \A k \in (j + 1)..Len(out) :
           /\ DLeq(out[j].energy, out[k].energy)
           /\ DLeq(out[j].capacity, out[k].capacity)
    /\ Len(out) > 0 => /\ DLeq(out[Len(out)].energy, energy)
                       /\ DLeq(out[Len(out)].capacity, capacity)

\* C8 happens: two reports have been decoded, the second after a sample with
\* no current, and the accumulators have grown across them.
C8_Witness ==
    /\ Len(out) = 8
    /\ out[4].current = FromInt(0)
    /\ ~DLeq(out[8].energy, out[4].energy)
    /\ ~DLeq(out[8].capacity, out[4].capacity)

\* the smoothed temperature after a sub-sample of raw temperature temp_C
RefEma(k, temp_C) ==
    IF k = 1 THEN temp_C
    ELSE DAdd(DMul(Tenth, temp_C), DMul(NineTenths, out[k - 1].temp_ema))

\* C9: sample i of a valid report carries the fields of the bytes at 2 + 15 * i
\* and of no other: voltage and current the 32-bit values at +0 and +4 over
\* 100000, dp and dn the 16-bit values at +8 and +10 over 1000, and the
\* temperature smoothed in is the 16-bit value at +13 over 10; a raw voltage
\* of 12345600 is 123.456 V.
C9_FieldLayout ==
    (Called /\ Valid(data))
        => /\ Len(Emitted) = 4
           /\ \A i \in 0..3 :
                  LET b == 2 + 15 * i
                      e == Emitted[i + 1]
                  IN  /\ e.voltage = DivBy(RefLE(data, b, 4), 100000)
                      /\ e.current = DivBy(RefLE(data, b + 4, 4), 100000)
                      /\ e.dp = DivBy(RefLE(data, b + 8, 2), 1000)
                      /\ e.dn = DivBy(RefLE(data, b + 10, 2), 1000)
                      /\ e.temp_ema =
                             RefEma(last.n + i + 1,
                                    DivBy(RefLE(data, b + 13, 2), 10))
                      /\ RefLE(data, b, 4) = FromInt(12345600)
                             => e.voltage = [m |-> <<4560, 123>>, q |-> 1]

\* C9 happens: a valid report with raw voltage 12345600 in sub-record 2 and
\* another value in sub-record 1 has been decoded.
C9_Witness ==
    /\ Called /\ Valid(data) /\ Len(Emitted) = 4
    /\ RefLE(data, 32, 4) = FromInt(12345600)
    /\ RefLE(data, 17, 4) # FromInt(12345600)
    /\ Emitted[3].voltage = [m |-> <<4560, 123>>, q |-> 1]
    /\ Emitted[3].dp # Emitted[2].dp

\* C10: temp_ema is unset exactly while nothing has been decoded; the first
\* sub-sample of the session sets it to its raw temperature and every later
\* one, the first of a later report included, to 0.1 * its raw temperature
\* + 0.9 * the temp_ema of the sample printed before it; between calls
\* temp_ema is that of the last sample printed, whatever was dropped since.
C10_EmaCarried ==
    /\ temp_ema = None <=> Len(out) = 0
    /\ Len(out) > 0 => temp_ema = Some(out[Len(out)].temp_ema)
    /\ Called =>
           /\ last.temp_ema =
                  IF last.n = 0 THEN None ELSE Some(out[last.n].temp_ema)
           /\ \A j \in 1..Len(Emitted) :
                  Emitted[j].temp_ema =
                      RefEma(last.n + j,
                             DivBy(RefLE(data, 2 + 15 * (j - 1) + 13, 2), 10))

\* C10 happens: a second report has been decoded and its first sample's
\* temperature is smoothed with the first report's last one.
C10_Witness ==
    /\ Called /\ last.n = 4 /\ Len(out) = 8
    /\ out[5].temp_ema # DivBy(RefLE(data, 15, 2), 10)
    /\ out[5].temp_ema # out[4].temp_ema

\* C11: when the temp_ema a sub-sample is smoothed into equals its raw
\* temperature, the temp_ema it leaves equals that temperature too.
C11_FixedPoint ==
    \A k \in 2..Len(out) :
        out[k - 1].temp_ema = out[k].temp_C => out[k].temp_ema = out[k].temp_C

\* one message bit shifted into an 8-bit register, polynomial 0x39, most
\* significant bit first
RefCrcBit(c, bit) ==
    LET sh == (2 * c) % 256
    IN  IF (c \div 128 + bit) % 2 = 1 THEN XorByte(sh, 57) ELSE sh

RECURSIVE RefCrcByte(_, _, _)
RefCrcByte(c, b, j) ==
    IF j < 0 THEN c ELSE RefCrcByte(RefCrcBit(c, (b \div (2 ^ j)) % 2), b, j - 1)

\* the register after bytes[i..], bit by bit
RECURSIVE RefCrc8(_, _, _)
RefCrc8(c, bytes, i) ==
    IF i > Len(bytes) THEN c
    ELSE LET r == RefCrcByte(c, bytes[i], 7)
         IN  IF r \in Byte THEN RefCrc8(r, bytes, i + 1) ELSE r

\* ASCII "123456789"
CheckPayload == <<49, 50, 51, 52, 53, 54, 55, 56, 57>>

\* C12: the checksum of the calculator is the bit-serial CRC-8 with
\* polynomial 0x39 and initial value 0x42, unreflected and with no final xor;
\* it is 0x4B on "123456789"; and with a calculator a 64-byte report of type
\* 0x04 is decoded exactly when its byte 63 is that CRC of its bytes 1..62,
\* and otherwise prints nothing.
C12_Crc8 ==
    /\ calculate_checksum(CheckPayload) = 75
    /\ RefCrc8(66, CheckPayload, 1) = 75
    /\ (crc_calculator /\ Called /\ Len(data) = 64 /\ data[2] = 4)
           => IF data[64] = RefCrc8(66, SubSeq(data, 2, 63), 1)
              THEN Len(Emitted) = 4
              ELSE Emitted = << >> /\ notices > 0

\* C12 happens: with a calculator, a report whose byte 63 is the CRC of its
\* bytes 1..62 has been decoded after a report with another byte 63 was
\* dropped.
C12_Witness ==
    /\ crc_calculator /\ Called /\ Len(data) = 64 /\ data[2] = 4
    /\ data[64] = RefCrc8(66, SubSeq(data, 2, 63), 1)
    /\ data[64] # 0
    /\ Len(Emitted) = 4
    /\ notices > 0

\* the 64-byte command 0xAA code 0x00 * 61 sum
RefBuf(code, sum) ==
    [j \in 1..64 |-> IF j = 1 THEN 170 ELSE IF j = 2 THEN code
                     ELSE IF j = 64 THEN sum ELSE 0]

\* C13: the buffers written are, in order, 0xAA 0x81 .. 0x8E, 0xAA 0x82 ..
\* 0x96, the start-streaming buffer of the variant (0xAA 0x82 .. 0x96 for
\* FNB58, 0xAA 0x83 .. 0x9E otherwise) and from then on only keep-alive
\* buffers 0xAA 0x83 .. 0x9E; no read is issued before all three have been
\* written; and a failed write among the three ends the session with no read
\* made.
C13_HandshakeFirst ==
    /\ Len(written) >= 1 => written[1] = RefBuf(129, 142)
    /\ Len(written) >= 2 => written[2] = RefBuf(130, 150)
    /\ Len(written) >= 3 =>
           written[3] = IF is_fnb58 THEN RefBuf(130, 150) ELSE RefBuf(131, 158)
    /\ \A k \in 4..Len(written) : written[k] = RefBuf(131, 158)
    /\ (reads > 0 \/ pc \in {"read", "keepalive"}) => Len(written) >= 3
    /\ Len(written) < 3 =>
           /\ reads = 0 /\ out = << >> /\ last = NoRead
           /\ pc \in {"handshake1", "handshake2", "start", "terminated"}
           /\ pc = "terminated" => err = "USBError"

\* C13 happens: an FNB58 session has written its three buffers, read a report
\* and then written a keep-alive, which differs from its third buffer.
C13_Witness ==
    /\ is_fnb58 /\ reads > 0
    /\ Len(written) = 4
    /\ written[3] = RefBuf(130, 150)
    /\ written[4] = RefBuf(131, 158)
    /\ written[4] # written[3]

\* the refresh period of the variant, in ms
RefPeriod == IF is_fnb58 THEN 1000 ELSE 3

C14_Step ==
    /\ (pc = "settle" /\ pc' = "read") => continue_time' = now' + RefPeriod
    /\ (Len(written) >= 3 /\ written' # written) =>
           /\ pc = "keepalive" /\ last.outcome = "data"
           /\ now >= continue_time
           /\ written' = Append(written, RefBuf(131, 158))
           /\ now' = now
           /\ continue_time' = now + RefPeriod
           /\ pc' = "read"
           /\ reads' = reads /\ out' = out
    /\ (written' = written /\ pc # "settle" /\ pc' # "terminated")
           => continue_time' = continue_time

\* C14: once the handshake is written, a buffer is written only in the
\* keep-alive step that follows a read and its decode, only when the clock
\* has reached continue_time, and it is 0xAA 0x83 .. 0x9E for every variant;
\* the step sets continue_time to the clock plus 1000 ms (FNB58) or 3 ms
\* (others) and goes back to reading, so that there is at most one keep-alive
\* per read; entering the loop sets continue_time to the clock plus the same
\* period, and nothing else changes continue_time.
C14_Cadence ==
    /\ [](Len(written) <= 3 + reads)
    /\ [][C14_Step]_vars

\* C14 happens: an FNB58 session has skipped the keep-alive after a first
\* read, 1 ms after entering the loop, and sent it after a second read,
\* 1001 ms after entering the loop.
C14_Witness ==
    /\ is_fnb58 /\ reads = 2 /\ pc = "read"
    /\ Len(written) = 4
    /\ now = 1101
    /\ continue_time = 2101

\* C15: in the loop the clock is never more than 1000 ms past continue_time,
\* and when a read has completed, with a report decoded or with a timeout, at
\* a clock that has reached continue_time, main() is at the keep-alive write.
C15_BoundedLag ==
    /\ pc \in {"read", "keepalive"} => now <= continue_time + 1000
    /\ (/\ \/ last.outcome = "timeout"
           \/ last.outcome = "data" /\ err = "none"
        /\ now >= continue_time)
           => pc = "keepalive"

C16_Step ==
    /\ pc # "terminated" /\ err = "none"
    /\ (last'.outcome = "error" /\ last.outcome # "error")
           => pc' = "terminated" /\ err' = "USBError"
    /\ written' = written => (pc # "keepalive" \/ now < continue_time
                              \/ pc' = "terminated")

\* C16: main() is ended exactly when an exception was raised; a read that
\* fails and a keep-alive write that fails end it; and once it is ended no
\* step is taken: nothing is read, written or printed and temp_ema, energy
\* and capacity stay as they are.
C16_TerminatedAbsorbing ==
    /\ [](pc = "terminated" <=> err # "none")
    /\ [][C16_Step]_vars

\* C16 happens: a read failed after a report had been decoded and a
\* keep-alive written, and main() is ended.
C16_Witness ==
    /\ pc = "terminated" /\ err = "USBError"
    /\ last.outcome = "error"
    /\ Len(out) = 4 /\ Len(written) = 4
    /\ reads = 2

\* C17: without a calculator every 64-byte report of type 0x04 is decoded
\* into four samples, whatever its byte 63; a report of another type prints
\* nothing and changes nothing with and without a calculator; and
\* crc_calculator is not assigned after the start of the session.
C17_DegradedMode ==
    /\ [](/\ (~crc_calculator /\ Called /\ Len(data) = 64 /\ data[2] = 4)
                 => /\ Len(Emitted) = 4
                    /\ err = "none" /\ notices = 0
          /\ (Called /\ Len(data) >= 2 /\ data[2] # 4)
                 => /\ Emitted = << >> /\ StateKept
                    /\ err = "none")
    /\ [][crc_calculator' = crc_calculator]_vars

\* C17 happens: without a calculator, a report whose byte 63 is not the CRC
\* of its bytes 1..62 has been decoded into four samples.
C17_Witness ==
    /\ ~crc_calculator /\ Called /\ Len(data) = 64 /\ data[2] = 4
    /\ data[64] # RefCrc8(66, SubSeq(data, 2, 63), 1)
    /\ Len(Emitted) = 4
    /\ pc = "keepalive"

\* d with the reserved flag of every sub-record and the byte at offset 62
\* replaced by other values
OtherReserved(d) ==
    [j \in 1..Len(d) |->
        IF j \in {15, 30, 45, 60} THEN 255 - d[j]
        ELSE IF j = 63 THEN (d[j] + 77) % 256
        ELSE d[j]]

\* what decode leaves when called on d in the state and at the clock the
\* last call began with
Redone(d) ==
    decode([temp_ema |-> last.temp_ema, energy |-> last.energy,
            capacity |-> last.capacity, out |-> SubSeq(out, 1, last.n),
            notices |-> 0, accepted |-> 0, err |-> "none"],
           d, FALSE, DivBy(FromInt(last.t), 1000))

\* C18: without a calculator, a 64-byte report of type 0x04 is decoded into
\* four samples whatever its reserved bytes, and the same report with other
\* reserved flags and another byte 62, decoded in the same state at the same
\* time, prints the same samples and leaves the same temp_ema, energy and
\* capacity.
C18_ReservedIgnored ==
    (~crc_calculator /\ Called /\ Len(data) = 64 /\ data[2] = 4)
        => /\ Len(Emitted) = 4
           /\ LET r == Redone(OtherReserved(data))
              IN  /\ r.out = out
                  /\ r.temp_ema = temp_ema
                  /\ r.energy = energy
                  /\ r.capacity = capacity
                  /\ r.err = err

\* C18 happens: without a calculator, a report whose second sub-record has
\* the reserved flag 0 has been decoded after an earlier report.
C18_Witness ==
    /\ ~crc_calculator /\ Called /\ Len(data) = 64 /\ data[2] = 4
    /\ data[30] = 0 /\ data[15] = 1
    /\ OtherReserved(data) # data
    /\ Len(Emitted) = 4 /\ last.n = 4

\* C19: while no exception has been raised, every sample printed carries a
\* timestamp that is at least the timestamp of the sample printed before it.
C19_TimestampsNonDecreasing ==
    err = "none" => \A k \in 2..Len(out) : DLeq(out[k - 1].t, out[k].t)

\* C20: temp_ema is unset exactly while no sub-sample has been decoded, and
\* then both accumulators are 0; when it is set it is at least the smallest
\* and at most the largest of the raw temperatures decoded so far.
C20_EmaWithinRange ==
    /\ temp_ema = None <=> Len(out) = 0
    /\ Len(out) = 0 => (energy = FromInt(0) /\ capacity = FromInt(0))
    /\ temp_ema # None =>
           /\ \E j \in 1..Len(out) : FLeq(out[j].temp_C, Val(temp_ema))
           /\ \E k \in 1..Len(out) : FLeq(Val(temp_ema), out[k].temp_C)
====
